---- MODULE Spec2Model ----
(***************************************************************************)
(* runecs: the task launch-and-observe pipeline.                           *)
(*                                                                         *)
(* Execute (internal/ecs/execute.go) resolves the service and its task     *)
(* definition, launches one task and, when asked to wait, runs             *)
(* waitForTaskCompletion: a poll loop over checkTaskStatus, next to a      *)
(* log-collecting goroutine fed by the relay goroutine of TailLogGroups.   *)
(* The control plane, the log stream and the operator's interrupt are the  *)
(* environment.                                                            *)
(***************************************************************************)
EXTENDS Integers, Sequences, FiniteSets, TLC

\* ------------------------------------------------------------------ bounds

\* Log entries the live-tail stream delivers during one run.
MaxEntries == 3

\* Log events carried by one session-update event.
MaxBatch == 2

\* Capacity of the relay's buffered channel. The program uses 100
\* (make(chan LogEntry, 100)); the model scales it down so that a full
\* buffer is reached within MaxEntries entries.
LogChanCap == 1

\* ------------------------------------------------------------------ values

TaskArn == "arn:aws:ecs:task/t1"

LatestTaskDefArn == "arn:aws:ecs:task-definition/app:7"

ClonedTaskDefArn == "arn:aws:ecs:task-definition/app:8"

\* Container exit codes the control plane may report.
ExitCodes == {0, 1, 137}

\* Docker image tag argument: "" means no override.
ImageTags == {"", "v2"}

\* Capacity-provider strategies a service may declare.
CapacityStrategies ==
    { <<>>,
      << [provider |-> "FARGATE_SPOT", weight |-> 1, base |-> 0] >>,
      << [provider |-> "FARGATE", weight |-> 1, base |-> 1],
         [provider |-> "FARGATE_SPOT", weight |-> 3, base |-> 0] >> }

\* RequiresCompatibilities of a task definition (empty is rejected).
Compatibilities == { <<>>, <<"FARGATE">>, <<"EC2", "FARGATE">> }

\* AwsvpcConfiguration of a service: "none" when the service has no network
\* configuration, otherwise its subnets and security groups.
NetworkConfigs ==
    { [present |-> FALSE, subnets |-> <<>>, securityGroups |-> <<>>],
      [present |-> TRUE, subnets |-> <<>>, securityGroups |-> <<>>],
      [present |-> TRUE, subnets |-> <<"subnet-a">>, securityGroups |-> <<>>],
      [present |-> TRUE, subnets |-> <<>>, securityGroups |-> <<"sg-1">>] }

\* ------------------------------------------------------------------ errors

NoErr == [kind |-> "nil"]

\* context.Canceled, as returned by ctx.Err() or by an SDK call whose context
\* was cancelled.
CtxErr == [kind |-> "context canceled"]

\* An error of the control plane or of a required-field check.
Err(msg) == [kind |-> "error", msg |-> msg]

\* fmt.Errorf("task %s failed with exit code %d", arn, exitCode)
TaskFailedErr(arn, code) == [kind |-> "task failed", arn |-> arn, code |-> code]

\* ------------------------------------------------------------------ state

VARIABLES
    pc,                 \* position of the goroutine running Execute
    waitForCompletion,  \* Execute's argument
    dockerImageTag,     \* Execute's argument
    svc,                \* serviceInfo read by DescribeServices
    tdef,               \* TaskDefinition returned by describeTask
    taskDef,            \* definition ARN the task is launched from
    runTaskInput,       \* the request handed to RunTask
    calls,              \* names of the remote requests issued so far
    result,             \* *ExecuteResult, shared with the collector
    werr,               \* value waitForTaskCompletion returns
    ret,                \* what Execute returned: result pointer and error
    lastReply,          \* the last DescribeTasks reply seen by the poll loop
    success,            \* the flag checkTaskStatus returned for that reply
    ctxCancelled,       \* ctx.Done() is closed
    taskCtxCancelled,   \* cancel() of taskCtx was called
    collectorPc,        \* log-collecting goroutine
    relayPc,            \* relay goroutine of TailLogGroups
    event,              \* last event the relay received
    pending,            \* entries of the session update still to be sent
    logChan,            \* buffered channel of the relay
    logChanClosed,      \* close(logChan) has run
    stream,             \* live-tail event stream
    closeFuncCalled,    \* the closeFunc returned by TailLogGroups was invoked
    task,               \* the launched task on the control plane
    nextEntry,          \* next log entry the stream will deliver
    served,             \* log events the stream has served so far, in order
    relayed,            \* entries the relay has sent on logChan so far, in order
    registry,           \* task definitions and service of the control plane
    deploy,             \* a run of the resolver, cloneTaskDef or Deploy
    cursorMode,         \* the batch/cursor polling loop of pkg/ecs Execute
    prune,              \* a run of deregisterTaskFamily
    revisionsRun        \* a run of getRevisions

vars == << pc, waitForCompletion, dockerImageTag, svc, tdef, taskDef,
           runTaskInput, calls, result, werr, ret, lastReply, success,
           ctxCancelled,
           taskCtxCancelled, collectorPc, relayPc, event, pending, logChan,
           logChanClosed, stream, closeFuncCalled, task, nextEntry, served,
           relayed, registry, deploy, cursorMode, prune,
           revisionsRun >>

\* Groups used in UNCHANGED clauses.
argVars == << waitForCompletion, dockerImageTag >>

launchVars == << svc, tdef, taskDef, runTaskInput >>

\* State of the other entry points, which Execute's wait never touches.
sideVars == << registry, deploy, cursorMode, prune, revisionsRun >>

relayVars == << relayPc, event, pending, logChan, logChanClosed, nextEntry >>

logVars == << collectorPc, relayPc, event, pending, logChan, logChanClosed,
              stream, closeFuncCalled, nextEntry, taskCtxCancelled >>

NoValue == [present |-> FALSE]

NoResult == [isNil |-> TRUE]

NoReply == [received |-> FALSE]

NoTask == [status |-> "none", exitCode |-> 0]

\* An entry point that is not running.
Idle == [pc |-> "idle"]

Init ==
    /\ pc = "DescribeServices"
    /\ waitForCompletion \in BOOLEAN
    /\ dockerImageTag \in ImageTags
    /\ svc = NoValue
    /\ tdef = NoValue
    /\ taskDef = ""
    /\ runTaskInput = NoValue
    /\ calls = {}
    /\ result = NoResult
    /\ werr = NoErr
    /\ ret = [returned |-> FALSE]
    /\ lastReply = NoReply
    /\ success = FALSE
    /\ ctxCancelled = FALSE
    /\ taskCtxCancelled = FALSE
    /\ collectorPc = "none"
    /\ relayPc = "none"
    /\ event = "none"
    /\ pending = <<>>
    /\ logChan = <<>>
    /\ logChanClosed = FALSE
    /\ stream = "none"
    /\ closeFuncCalled = FALSE
    /\ task = NoTask
    /\ nextEntry = 1
    /\ served = <<>>
    /\ relayed = <<>>
    /\ registry = Idle
    /\ deploy = Idle
    /\ cursorMode = Idle
    /\ prune = Idle
    /\ revisionsRun = Idle

\* ------------------------------------------------------- Execute: launch

\* Execute returns (result or nil, err) to its caller.
ReturnFromExecute(hasResult, err) ==
    /\ pc' = "returned"
    /\ ret' = [returned |-> TRUE, hasResult |-> hasResult, err |-> err]

\* clients.ECS.DescribeServices and the first-service check.
DescribeServices ==
    /\ pc = "DescribeServices"
    /\ calls' = calls \cup {"DescribeServices"}
    /\ \/ /\ \E msg \in {"error describing service", "failed to get service information"} :
                ReturnFromExecute(FALSE, Err(msg))
          /\ UNCHANGED svc
       \/ /\ \E s \in CapacityStrategies, n \in NetworkConfigs :
                svc' = [present |-> TRUE, capacityProviderStrategy |-> s, network |-> n]
          /\ pc' = "latestTaskDefinitionArn"
          /\ UNCHANGED ret
    /\ UNCHANGED << argVars, sideVars, served, relayed, tdef, taskDef, runTaskInput,
                    result, werr, lastReply,
                    success, ctxCancelled, logVars, task >>

\* The requests latestTaskDefinitionArn issues, in order.
ResolverCalls == << "DescribeServices", "DescribeTaskDefinition", "ListTaskDefinitions" >>

\* latestTaskDefinitionArn as Execute sees it: the latest ARN of the family, or
\* an error after any of its requests.
LatestTaskDefinitionArn ==
    /\ pc = "latestTaskDefinitionArn"
    /\ \/ /\ \E n \in 1..Len(ResolverCalls) :
                calls' = calls \cup { ResolverCalls[i] : i \in 1..n }
          /\ ReturnFromExecute(FALSE, Err("error getting task definition for service"))
          /\ UNCHANGED taskDef
       \/ /\ calls' = calls \cup { ResolverCalls[i] : i \in 1..Len(ResolverCalls) }
          /\ taskDef' = LatestTaskDefArn
          /\ pc' = "describeTask"
          /\ UNCHANGED ret
    /\ UNCHANGED << argVars, sideVars, served, relayed, svc, tdef, runTaskInput,
                    result, werr, lastReply,
                    success, ctxCancelled, logVars, task >>

\* describeTask: the definition's metadata; a definition with no compatibility
\* requirement (or no CPU, no memory, no container name) is an error.
DescribeTask ==
    /\ pc = "describeTask"
    /\ calls' = calls \cup {"DescribeTaskDefinition"}
    /\ \E c \in Compatibilities, fieldsOk \in BOOLEAN :
          IF fieldsOk /\ Len(c) > 0
          THEN /\ tdef' = [present |-> TRUE, RequiresCompatibilities |-> c]
               /\ pc' = "cloneTaskDef"
               /\ UNCHANGED ret
          ELSE /\ ReturnFromExecute(FALSE, Err("error loading task definition"))
               /\ UNCHANGED tdef
    /\ UNCHANGED << argVars, sideVars, served, relayed, svc, taskDef, runTaskInput,
                    result, werr, lastReply,
                    success, ctxCancelled, logVars, task >>

\* The requests cloneTaskDef issues, in order.
CloneCalls == << "DescribeServices", "DescribeTaskDefinition", "ListTaskDefinitions",
                 "RegisterTaskDefinition" >>

\* The image-tag branch of Execute: clone the definition when a tag is given.
CloneTaskDef ==
    /\ pc = "cloneTaskDef"
    /\ IF dockerImageTag # ""
       THEN \/ /\ \E n \in 1..Len(CloneCalls) :
                     calls' = calls \cup { CloneCalls[i] : i \in 1..n }
               /\ ReturnFromExecute(FALSE, Err("clone failed"))
               /\ UNCHANGED taskDef
            \/ /\ calls' = calls \cup { CloneCalls[i] : i \in 1..Len(CloneCalls) }
               /\ taskDef' = ClonedTaskDefArn
               /\ pc' = "buildRunTaskInput"
               /\ UNCHANGED ret
       ELSE /\ pc' = "buildRunTaskInput"
            /\ UNCHANGED << calls, taskDef, ret >>
    /\ UNCHANGED << argVars, sideVars, served, relayed, svc, tdef, runTaskInput,
                    result, werr, lastReply,
                    success, ctxCancelled, logVars, task >>

\* An absent field of the run request.
Absent == "absent"

\* Placement with the launch type always set (a hard-coded launch type kept
\* next to the strategy).
Placement_AlwaysLaunchType(strategy, compat) ==
    [CapacityProviderStrategy |-> strategy, LaunchType |-> compat[1]]

\* The placement fields of the run request: the service's strategy when it has
\* one, otherwise the definition's first required compatibility as launch type.
Placement(strategy, compat) ==
    IF Len(strategy) > 0
    THEN [CapacityProviderStrategy |-> strategy, LaunchType |-> Absent]
    ELSE [CapacityProviderStrategy |-> <<>>, LaunchType |-> compat[1]]

\* The network field set whenever the service has a network configuration, its
\* lists empty or not.
NetworkPlacement_WheneverConfigured(net) ==
    IF net.present
    THEN [present |-> TRUE, Subnets |-> net.subnets,
          SecurityGroups |-> net.securityGroups, AssignPublicIp |-> "ENABLED"]
    ELSE [present |-> FALSE]

\* The network field of the run request: set only when the service declares a
\* subnet or a security group.
NetworkPlacement(net) ==
    LET subnets == IF net.present THEN net.subnets ELSE <<>>
        securityGroups == IF net.present THEN net.securityGroups ELSE <<>>
    IN IF Len(subnets) > 0 \/ Len(securityGroups) > 0
       THEN [present |-> TRUE, Subnets |-> subnets, SecurityGroups |-> securityGroups,
             AssignPublicIp |-> "ENABLED"]
       ELSE [present |-> FALSE]

\* Execute builds the RunTaskInput.
BuildRunTaskInput ==
    /\ pc = "buildRunTaskInput"
    /\ runTaskInput' =
          [present |-> TRUE,
           TaskDefinition |-> taskDef,
           placement |-> Placement(svc.capacityProviderStrategy,
                                   tdef.RequiresCompatibilities),
           NetworkConfiguration |-> NetworkPlacement(svc.network)]
    /\ pc' = "RunTask"
    /\ UNCHANGED << argVars, sideVars, served, relayed, svc, tdef, taskDef, calls,
                    result, werr, ret, lastReply,
                    success, ctxCancelled, logVars, task >>

\* RunTask that enters the wait whatever waitForCompletion says.
RunTask_AlwaysWaits ==
    /\ pc = "RunTask"
    /\ calls' = calls \cup {"RunTask"}
    /\ task' = [status |-> "PENDING", exitCode |-> 0]
    /\ svc' = NoValue
    /\ tdef' = NoValue
    /\ runTaskInput' = NoValue
    /\ result' = [isNil |-> FALSE,
                  TaskDefinition |-> taskDef,
                  TaskArn |-> TaskArn,
                  NewTaskDefCreated |-> (dockerImageTag # ""),
                  Finished |-> FALSE,
                  Logs |-> <<>>]
    /\ pc' = "GetCallerIdentity"
    /\ UNCHANGED << argVars, sideVars, served, relayed, taskDef, werr, ret,
                    lastReply, success, ctxCancelled,
                    logVars >>

\* clients.ECS.RunTask, the checks of its reply, the new result and, without
\* waitForCompletion, the return. Once the task is launched the service info,
\* the compatibilities and the request are not read again: the model forgets
\* them.
RunTask ==
    /\ pc = "RunTask"
    /\ calls' = calls \cup {"RunTask"}
    /\ \/ /\ \E msg \in {"run task failed", "failed to get executed task",
                         "executed task has no ARN"} :
                ReturnFromExecute(FALSE, Err(msg))
          /\ UNCHANGED << result, task, svc, tdef, runTaskInput >>
       \/ /\ task' = [status |-> "PENDING", exitCode |-> 0]
          /\ svc' = NoValue
          /\ tdef' = NoValue
          /\ runTaskInput' = NoValue
          /\ result' = [isNil |-> FALSE,
                        TaskDefinition |-> taskDef,
                        TaskArn |-> TaskArn,
                        NewTaskDefCreated |-> (dockerImageTag # ""),
                        Finished |-> FALSE,
                        Logs |-> <<>>]
          /\ IF waitForCompletion
             THEN pc' = "GetCallerIdentity" /\ UNCHANGED ret
             ELSE ReturnFromExecute(TRUE, NoErr)
    /\ UNCHANGED << argVars, sideVars, served, relayed, taskDef, werr, lastReply,
                    success, ctxCancelled,
                    logVars >>

\* ------------------------------------------------- the control plane's task

\* The launched task moves on by itself: PENDING, RUNNING, then STOPPED with
\* the exit code of its container. Nothing reads the task once Execute has
\* returned: the model follows it until then.
TaskAdvance ==
    /\ pc # "returned"
    /\ \/ /\ task.status = "PENDING"
          /\ task' = [task EXCEPT !.status = "RUNNING"]
       \/ /\ task.status = "RUNNING"
          /\ \E e \in ExitCodes : task' = [status |-> "STOPPED", exitCode |-> e]
    /\ UNCHANGED << pc, argVars, sideVars, served, relayed, launchVars, calls,
                    result, werr, ret, lastReply,
                    success, ctxCancelled, logVars >>

\* The operator's interrupt cancels the shared context while Execute runs.
Cancel ==
    /\ pc # "returned"
    /\ ~ctxCancelled
    /\ ctxCancelled' = TRUE
    /\ UNCHANGED << pc, argVars, sideVars, served, relayed, launchVars, calls,
                    result, werr, ret, lastReply,
                    success, logVars, task >>

\* A DescribeTasks reply for a task in state t, complete.
FullReply(t) ==
    [received |-> TRUE, err |-> "nil", tasks |-> 1, lastStatus |-> t.status,
     containers |-> 1, hasExitCode |-> (t.status = "STOPPED"),
     exitCode |-> t.exitCode, taskArn |-> TaskArn]

\* The replies DescribeTasks may give for a task in state t: the complete one,
\* a failed request (with the context's error once ctx is cancelled), and the
\* structurally incomplete ones.
DescribeTasksReplies(t, cancelled) ==
    LET full == FullReply(t)
    IN {full, [full EXCEPT !.err = "api"], [full EXCEPT !.tasks = 0],
        [full EXCEPT !.lastStatus = "nil"]}
       \cup (IF cancelled THEN {[full EXCEPT !.err = "ctx"]} ELSE {})
       \cup (IF t.status = "STOPPED"
             THEN {[full EXCEPT !.containers = 0], [full EXCEPT !.hasExitCode = FALSE],
                   [full EXCEPT !.taskArn = "nil"]}
             ELSE {})

\* ---------------------------------------------------------- checkTaskStatus

\* checkTaskStatus that reports a stopped task as done whatever its exit code.
checkTaskStatus_ExitCodeIgnored(reply) ==
    IF reply.err # "nil"
    THEN [success |-> FALSE,
          err |-> IF reply.err = "ctx" THEN CtxErr ELSE Err("DescribeTasks failed")]
    ELSE IF reply.tasks = 0
    THEN [success |-> FALSE, err |-> Err("failed to get task information")]
    ELSE IF reply.lastStatus = "nil"
    THEN [success |-> FALSE, err |-> Err("task has no status information")]
    ELSE [success |-> (reply.lastStatus = "STOPPED"), err |-> NoErr]

\* checkTaskStatus that takes any task with containers for a finished one (the
\* status string is not compared).
checkTaskStatus_StatusNotCompared(reply) ==
    IF reply.err # "nil"
    THEN [success |-> FALSE,
          err |-> IF reply.err = "ctx" THEN CtxErr ELSE Err("DescribeTasks failed")]
    ELSE IF reply.tasks = 0
    THEN [success |-> FALSE, err |-> Err("failed to get task information")]
    ELSE IF reply.lastStatus = "nil"
    THEN [success |-> FALSE, err |-> Err("task has no status information")]
    ELSE IF reply.containers = 0
    THEN [success |-> FALSE, err |-> Err("failed to get container information")]
    ELSE IF reply.taskArn = "nil"
    THEN [success |-> FALSE, err |-> Err("task has no ARN")]
    ELSE IF reply.hasExitCode /\ reply.exitCode # 0
    THEN [success |-> TRUE, err |-> TaskFailedErr(reply.taskArn, reply.exitCode)]
    ELSE [success |-> TRUE, err |-> NoErr]

\* checkTaskStatus that takes a stopped container without exit code for one
\* that exited with 0.
checkTaskStatus_NoExitCodeMeansZero(reply) ==
    IF reply.err # "nil"
    THEN [success |-> FALSE,
          err |-> IF reply.err = "ctx" THEN CtxErr ELSE Err("DescribeTasks failed")]
    ELSE IF reply.tasks = 0
    THEN [success |-> FALSE, err |-> Err("failed to get task information")]
    ELSE IF reply.lastStatus = "nil"
    THEN [success |-> FALSE, err |-> Err("task has no status information")]
    ELSE IF reply.lastStatus = "STOPPED"
    THEN IF reply.containers = 0
         THEN [success |-> FALSE, err |-> Err("failed to get container information")]
         ELSE IF reply.taskArn = "nil"
         THEN [success |-> FALSE, err |-> Err("task has no ARN")]
         ELSE IF reply.hasExitCode /\ reply.exitCode # 0
         THEN [success |-> TRUE, err |-> TaskFailedErr(reply.taskArn, reply.exitCode)]
         ELSE [success |-> TRUE, err |-> NoErr]
    ELSE [success |-> FALSE, err |-> NoErr]

\* checkTaskStatus on a DescribeTasks reply: (success, err).
checkTaskStatus(reply) ==
    IF reply.err # "nil"
    THEN [success |-> FALSE,
          err |-> IF reply.err = "ctx" THEN CtxErr ELSE Err("DescribeTasks failed")]
    ELSE IF reply.tasks = 0
    THEN [success |-> FALSE, err |-> Err("failed to get task information")]
    ELSE IF reply.lastStatus = "nil"
    THEN [success |-> FALSE, err |-> Err("task has no status information")]
    ELSE IF reply.lastStatus = "STOPPED"
    THEN IF reply.containers = 0
         THEN [success |-> FALSE, err |-> Err("failed to get container information")]
         ELSE IF ~reply.hasExitCode
         THEN [success |-> FALSE, err |-> Err("stopped container has no exit code")]
         ELSE IF reply.taskArn = "nil"
         THEN [success |-> FALSE, err |-> Err("task has no ARN")]
         ELSE IF reply.exitCode # 0
         THEN [success |-> TRUE, err |-> TaskFailedErr(reply.taskArn, reply.exitCode)]
         ELSE [success |-> TRUE, err |-> NoErr]
    ELSE [success |-> FALSE, err |-> NoErr]

\* ---------------------------------------------------- waitForTaskCompletion

\* GetCallerIdentity whose failure drops the result of the launched task.
GetCallerIdentity_DropsResult ==
    /\ pc = "GetCallerIdentity"
    /\ calls' = calls \cup {"GetCallerIdentity"}
    /\ \/ /\ \E msg \in {"failed to get caller identity",
                         "failed to extract partition from caller ARN",
                         "failed to extract task ID from ARN"} :
                /\ werr' = Err(msg)
                /\ ReturnFromExecute(FALSE, Err(msg))
       \/ /\ pc' = "TailLogGroups"
          /\ UNCHANGED << werr, ret >>
    /\ UNCHANGED << argVars, sideVars, served, relayed, launchVars, result,
                    lastReply, success, ctxCancelled,
                    logVars, task >>

\* STS GetCallerIdentity and the ARN parsing before the stream is opened; an
\* error returns from Execute with the result and no deferred call pending.
GetCallerIdentity ==
    /\ pc = "GetCallerIdentity"
    /\ calls' = calls \cup {"GetCallerIdentity"}
    /\ \/ /\ \E msg \in {"failed to get caller identity",
                         "failed to extract partition from caller ARN",
                         "failed to extract task ID from ARN"} :
                /\ werr' = Err(msg)
                /\ ReturnFromExecute(TRUE, Err(msg))
       \/ /\ pc' = "TailLogGroups"
          /\ UNCHANGED << werr, ret >>
    /\ UNCHANGED << argVars, sideVars, served, relayed, launchVars, result,
                    lastReply, success, ctxCancelled,
                    logVars, task >>

\* TailLogGroups: StartLiveTail; on success the relay goroutine is started and
\* closeFunc is deferred.
TailLogGroups ==
    /\ pc = "TailLogGroups"
    /\ calls' = calls \cup {"StartLiveTail"}
    /\ \/ /\ werr' = Err("failed to start log tailing")
          /\ ReturnFromExecute(TRUE, Err("failed to start log tailing"))
          /\ UNCHANGED << stream, relayPc >>
       \/ /\ stream' = "open"
          /\ relayPc' = "select"
          /\ pc' = "startCollector"
          /\ UNCHANGED << werr, ret >>
    /\ UNCHANGED << argVars, sideVars, served, relayed, launchVars, result,
                    lastReply, success, ctxCancelled,
                    taskCtxCancelled, collectorPc, event, pending, logChan,
                    logChanClosed, closeFuncCalled, nextEntry, task >>

\* taskCtx is derived from ctx and the log-collecting goroutine is started.
StartCollector ==
    /\ pc = "startCollector"
    /\ collectorPc' = "running"
    /\ pc' = "loopTop"
    /\ UNCHANGED << argVars, sideVars, served, relayed, launchVars, calls, result,
                    werr, ret, lastReply, success,
                    ctxCancelled, taskCtxCancelled, relayVars, stream,
                    closeFuncCalled, task >>

\* stream.Close(): idempotent.
CloseStream(s) == IF s = "none" THEN s ELSE "closed"

\* Unwind that returns a nil result next to an error.
Unwind_NilResultOnError(err) ==
    /\ werr' = err
    /\ taskCtxCancelled' = TRUE
    /\ closeFuncCalled' = TRUE
    /\ stream' = CloseStream(stream)
    /\ ReturnFromExecute(err = NoErr, err)

\* Unwind with closeFunc called on the success path only (no defer).
Unwind_CloseOnSuccessOnly(err) ==
    /\ werr' = err
    /\ taskCtxCancelled' = TRUE
    /\ closeFuncCalled' = (err = NoErr)
    /\ stream' = IF err = NoErr THEN CloseStream(stream) ELSE stream
    /\ ReturnFromExecute(TRUE, err)

\* waitForTaskCompletion returns err from inside or after the poll loop: the
\* deferred cancel() and closeFunc() run, and Execute returns the result with
\* that error.
Unwind(err) ==
    /\ werr' = err
    /\ taskCtxCancelled' = TRUE
    /\ closeFuncCalled' = TRUE
    /\ stream' = CloseStream(stream)
    /\ ReturnFromExecute(TRUE, err)

\* Top of the poll loop without the cancellation check.
PollStart_NoCtxCheck ==
    /\ pc = "loopTop"
    /\ calls' = calls \cup {"DescribeTasks"}
    /\ pc' = "inFlight"
    /\ UNCHANGED << argVars, sideVars, served, relayed, launchVars, result, werr,
                    ret, lastReply, success,
                    ctxCancelled, logVars, task >>

\* Top of the poll loop with the end of the log stream treated as a failure of
\* the wait.
PollStart_FailsWhenRelayEnded ==
    /\ pc = "loopTop"
    /\ IF ctxCancelled \/ logChanClosed
       THEN /\ Unwind(IF ctxCancelled THEN CtxErr ELSE Err("log stream ended"))
            /\ UNCHANGED calls
       ELSE /\ calls' = calls \cup {"DescribeTasks"}
            /\ pc' = "inFlight"
            /\ UNCHANGED << werr, ret, taskCtxCancelled, closeFuncCalled, stream >>
    /\ UNCHANGED << argVars, sideVars, served, relayed, launchVars, result,
                    lastReply, success, ctxCancelled, collectorPc, relayVars, task >>

\* Top of the poll loop: the cancellation check, then the DescribeTasks request
\* of checkTaskStatus is sent.
PollStart ==
    /\ pc = "loopTop"
    /\ IF ctxCancelled
       THEN /\ Unwind(CtxErr)
            /\ UNCHANGED calls
       ELSE /\ calls' = calls \cup {"DescribeTasks"}
            /\ pc' = "inFlight"
            /\ UNCHANGED << werr, ret, taskCtxCancelled, closeFuncCalled, stream >>
    /\ UNCHANGED << argVars, sideVars, served, relayed, launchVars, result,
                    lastReply, success, ctxCancelled,
                    collectorPc, relayVars, task >>

\* A poll loop that marks the result finished as soon as the task is seen
\* stopped, before it looks at the error.
PollReturn_FinishedOnAnyStop ==
    /\ pc = "inFlight"
    /\ \E reply \in DescribeTasksReplies(task, ctxCancelled) :
          LET r == checkTaskStatus(reply)
          IN /\ lastReply' = reply
             /\ success' = r.success
             /\ IF r.err # NoErr
                THEN /\ Unwind(r.err)
                     /\ result' = [result EXCEPT !.Finished = r.success]
                ELSE IF r.success
                THEN /\ result' = [result EXCEPT !.Finished = TRUE]
                     /\ taskCtxCancelled' = TRUE
                     /\ pc' = "waitLogsDone"
                     /\ UNCHANGED << werr, ret, closeFuncCalled, stream >>
                ELSE /\ pc' = "sleep"
                     /\ UNCHANGED << result, werr, ret, taskCtxCancelled,
                                     closeFuncCalled, stream >>
    /\ UNCHANGED << argVars, sideVars, served, relayed, launchVars, calls,
                    ctxCancelled, collectorPc,
                    relayVars, task >>

\* checkTaskStatus returns and the loop acts on it: an error ends the wait, a
\* success sets Finished and cancels taskCtx, anything else goes to sleep.
PollReturn ==
    /\ pc = "inFlight"
    /\ \E reply \in DescribeTasksReplies(task, ctxCancelled) :
          LET r == checkTaskStatus(reply)
          IN /\ lastReply' = reply
             /\ success' = r.success
             /\ IF r.err # NoErr
                THEN /\ Unwind(r.err)
                     /\ UNCHANGED result
                ELSE IF r.success
                THEN /\ result' = [result EXCEPT !.Finished = TRUE]
                     /\ taskCtxCancelled' = TRUE
                     /\ pc' = "waitLogsDone"
                     /\ UNCHANGED << werr, ret, closeFuncCalled, stream >>
                ELSE /\ pc' = "sleep"
                     /\ UNCHANGED << result, werr, ret, taskCtxCancelled,
                                     closeFuncCalled, stream >>
    /\ UNCHANGED << argVars, sideVars, served, relayed, launchVars, calls,
                    ctxCancelled, collectorPc,
                    relayVars, task >>

\* <-logsDone after a success, then break and return nil.
WaitLogsDone ==
    /\ pc = "waitLogsDone"
    /\ collectorPc = "done"
    /\ Unwind(NoErr)
    /\ UNCHANGED << argVars, sideVars, served, relayed, launchVars, calls, result,
                    lastReply, success,
                    ctxCancelled, collectorPc, relayVars, task >>

\* The sleep between polls ended by ctx.Done(), with a stop request for the
\* task sent on the way out.
SleepCancelled_StopsTask ==
    /\ pc = "sleep"
    /\ ctxCancelled
    /\ Unwind(CtxErr)
    /\ calls' = calls \cup {"StopTask"}
    /\ task' = [task EXCEPT !.status = "STOPPED"]
    /\ UNCHANGED << argVars, sideVars, served, relayed, launchVars, result,
                    lastReply, success,
                    ctxCancelled, collectorPc, relayVars >>

\* The sleep between polls: ctx.Done() ends the wait with ctx.Err().
SleepCancelled ==
    /\ pc = "sleep"
    /\ ctxCancelled
    /\ Unwind(CtxErr)
    /\ UNCHANGED << argVars, sideVars, served, relayed, launchVars, calls, result,
                    lastReply, success,
                    ctxCancelled, collectorPc, relayVars, task >>

\* The sleep between polls: the 5 second timer fires.
SleepTimeout ==
    /\ pc = "sleep"
    /\ pc' = "loopTop"
    /\ UNCHANGED << argVars, sideVars, served, relayed, launchVars, calls, result,
                    werr, ret, lastReply, success,
                    ctxCancelled, logVars, task >>

\* ------------------------------------------------ log-collecting goroutine

\* A collector that puts the received entry in front of result.Logs.
CollectorReceive_Prepends ==
    /\ collectorPc = "running"
    /\ Len(logChan) > 0
    /\ result' = [result EXCEPT !.Logs = <<Head(logChan)>> \o @]
    /\ logChan' = Tail(logChan)
    /\ UNCHANGED << pc, argVars, sideVars, served, relayed, launchVars, calls, werr,
                    ret, lastReply, success,
                    ctxCancelled, taskCtxCancelled, collectorPc, relayPc, event,
                    pending, logChanClosed, stream, closeFuncCalled, nextEntry, task >>

\* case logEntry, ok := <-logChan with ok: append to result.Logs.
CollectorReceive ==
    /\ collectorPc = "running"
    /\ Len(logChan) > 0
    /\ result' = [result EXCEPT !.Logs = Append(@, Head(logChan))]
    /\ logChan' = Tail(logChan)
    /\ UNCHANGED << pc, argVars, sideVars, served, relayed, launchVars, calls, werr,
                    ret, lastReply, success,
                    ctxCancelled, taskCtxCancelled, collectorPc, relayPc, event,
                    pending, logChanClosed, stream, closeFuncCalled, nextEntry, task >>

\* A collector that returns only once logChan is closed and drained, blind to
\* taskCtx.
CollectorReturn_IgnoresTaskCtx ==
    /\ collectorPc = "running"
    /\ logChanClosed /\ Len(logChan) = 0
    /\ collectorPc' = "done"
    /\ UNCHANGED << pc, argVars, sideVars, served, relayed, launchVars, calls,
                    result, werr, ret, lastReply,
                    success, ctxCancelled, taskCtxCancelled, relayVars, stream,
                    closeFuncCalled, task >>

\* A collector that marks the result finished when it returns.
CollectorReturn_MarksFinished ==
    /\ collectorPc = "running"
    /\ \/ taskCtxCancelled \/ ctxCancelled
       \/ logChanClosed /\ Len(logChan) = 0
    /\ collectorPc' = "done"
    /\ result' = [result EXCEPT !.Finished = TRUE]
    /\ UNCHANGED << pc, argVars, sideVars, served, relayed, launchVars, calls,
                    werr, ret, lastReply,
                    success, ctxCancelled, taskCtxCancelled, relayVars, stream,
                    closeFuncCalled, task >>

\* The collector returns (closing logsDone): taskCtx is done, or logChan is
\* closed and drained.
CollectorReturn ==
    /\ collectorPc = "running"
    /\ \/ taskCtxCancelled \/ ctxCancelled
       \/ logChanClosed /\ Len(logChan) = 0
    /\ collectorPc' = "done"
    /\ UNCHANGED << pc, argVars, sideVars, served, relayed, launchVars, calls,
                    result, werr, ret, lastReply,
                    success, ctxCancelled, taskCtxCancelled, relayVars, stream,
                    closeFuncCalled, task >>

\* ------------------------------------------- relay goroutine (TailLogGroups)

\* The session results of one session-update event: n log events numbered
\* from first, each complete (wf) or lacking a required field.
SessionResults(first) ==
    { r \in UNION { [1..n -> [id : first..(first + n - 1), wf : BOOLEAN]] :
                        n \in 1..MaxBatch } :
        /\ first + Len(r) - 1 <= MaxEntries
        /\ \A i \in 1..Len(r) : r[i].id = first + i - 1 }

\* The for loop over SessionResults without the check of the required fields.
SkipMalformed_KeepsAll(rs) == [i \in 1..Len(rs) |-> rs[i].id]

\* The for loop over SessionResults skips the events lacking a field: what is
\* left to send are the complete ones, in order.
RECURSIVE SkipMalformed(_)
SkipMalformed(rs) ==
    IF rs = <<>> THEN <<>>
    ELSE IF Head(rs).wf THEN <<Head(rs).id>> \o SkipMalformed(Tail(rs))
    ELSE SkipMalformed(Tail(rs))

\* The relay returns: deferred stream.Close() and close(logChan).
RelayExit ==
    /\ relayPc' = "exited"
    /\ stream' = CloseStream(stream)
    /\ logChanClosed' = TRUE

\* case <-ctx.Done(): in the outer select or in the send.
RelayCtxDone ==
    /\ relayPc \in {"select", "send"}
    /\ ctxCancelled
    /\ RelayExit
    /\ UNCHANGED << pc, argVars, sideVars, served, relayed, launchVars, calls,
                    result, werr, ret, lastReply,
                    success, ctxCancelled, taskCtxCancelled, collectorPc, event,
                    pending, logChan, closeFuncCalled, nextEntry, task >>

\* case event, ok := <-eventsChan: the events channel is closed once the
\* stream is closed or has failed; otherwise the next event is handled.
RelayReceive ==
    /\ relayPc = "select"
    /\ IF stream # "open"
       THEN /\ RelayExit
            /\ UNCHANGED << event, pending, nextEntry, served >>
       ELSE \/ /\ event' = "SessionStart"
               /\ UNCHANGED << relayPc, pending, nextEntry, served, stream,
                               logChanClosed >>
            \/ /\ event' = "Unknown"
               /\ UNCHANGED << relayPc, pending, nextEntry, served, stream,
                               logChanClosed >>
            \/ /\ event' = "nil"
               /\ RelayExit
               /\ UNCHANGED << pending, nextEntry, served >>
            \/ /\ \E rs \in SessionResults(nextEntry) :
                     /\ pending' = SkipMalformed(rs)
                     /\ nextEntry' = nextEntry + Len(rs)
                     /\ served' = served \o rs
               /\ event' = "SessionUpdate"
               /\ relayPc' = IF pending' = <<>> THEN "select" ELSE "send"
               /\ UNCHANGED << stream, logChanClosed >>
    /\ UNCHANGED << pc, argVars, sideVars, relayed, launchVars, calls, result, werr,
                    ret, lastReply,
                    success, ctxCancelled, taskCtxCancelled, collectorPc, logChan,
                    closeFuncCalled, task >>

\* case logChan <- logEntry: possible while the buffer has room.
RelaySend ==
    /\ relayPc = "send"
    /\ Len(logChan) < LogChanCap
    /\ logChan' = Append(logChan, Head(pending))
    /\ pending' = Tail(pending)
    /\ relayed' = Append(relayed, Head(pending))
    /\ relayPc' = IF pending' = <<>> THEN "select" ELSE "send"
    /\ UNCHANGED << pc, argVars, sideVars, served, launchVars, calls, result, werr,
                    ret, lastReply,
                    success, ctxCancelled, taskCtxCancelled, collectorPc, event,
                    logChanClosed, stream, closeFuncCalled, nextEntry, task >>

\* The live-tail stream fails on the server side: its events channel closes.
StreamFail ==
    /\ stream = "open"
    /\ stream' = "failed"
    /\ UNCHANGED << pc, argVars, sideVars, served, relayed, launchVars, calls,
                    result, werr, ret, lastReply,
                    success, ctxCancelled, taskCtxCancelled, collectorPc, relayVars,
                    closeFuncCalled, task >>

\* ------------------------------------------------------------ specification

Next ==
    \/ DescribeServices
    \/ LatestTaskDefinitionArn
    \/ DescribeTask
    \/ CloneTaskDef
    \/ BuildRunTaskInput
    \/ RunTask
    \/ GetCallerIdentity
    \/ TailLogGroups
    \/ StartCollector
    \/ PollStart
    \/ PollReturn
    \/ WaitLogsDone
    \/ SleepCancelled
    \/ SleepTimeout
    \/ CollectorReceive
    \/ CollectorReturn
    \/ RelayCtxDone
    \/ RelayReceive
    \/ RelaySend
    \/ StreamFail
    \/ TaskAdvance
    \/ Cancel

Spec == Init /\ [][Next]_vars

\* The steps of the goroutine that runs Execute.
ExecuteStep ==
    \/ DescribeServices
    \/ LatestTaskDefinitionArn
    \/ DescribeTask
    \/ CloneTaskDef
    \/ BuildRunTaskInput
    \/ RunTask
    \/ GetCallerIdentity
    \/ TailLogGroups
    \/ StartCollector
    \/ PollStart
    \/ PollReturn
    \/ WaitLogsDone
    \/ SleepCancelled
    \/ SleepTimeout

\* The steps of the log-collecting goroutine.
CollectorStep == CollectorReceive \/ CollectorReturn

\* The steps of the relay goroutine.
RelayStep == RelayCtxDone \/ RelayReceive \/ RelaySend

\* The Go scheduler runs every goroutine that can take a step, a request to
\* the control plane returns, and the timer fires; the task, the stream's
\* failure and the operator's interrupt are under no obligation.
Fairness ==
    /\ WF_vars(ExecuteStep)
    /\ WF_vars(CollectorStep)
    /\ WF_vars(RelayStep)

\* A run of Execute that waits for the task and launches it from the latest
\* definition: the image tag plays no part in the wait.
WaitInit == Init /\ waitForCompletion /\ dockerImageTag = ""

FairSpec == WaitInit /\ [][Next]_vars /\ Fairness

\* ------------------------------------------ checkTaskStatus on every reply

\* Every shape a DescribeTasks reply can take.
AllReplies ==
    [received : {TRUE}, err : {"nil", "api", "ctx"}, tasks : {0, 1},
     lastStatus : {"nil", "PENDING", "RUNNING", "STOPPED"}, containers : {0, 1},
     hasExitCode : BOOLEAN, exitCode : ExitCodes, taskArn : {"nil", TaskArn}]

\* A wait whose poll is about to receive any reply whatever.
WatcherInit ==
    /\ pc = "inFlight"
    /\ lastReply \in AllReplies
    /\ waitForCompletion = TRUE
    /\ dockerImageTag = ""
    /\ svc = NoValue
    /\ tdef = NoValue
    /\ taskDef = LatestTaskDefArn
    /\ runTaskInput = NoValue
    /\ calls = {"DescribeTasks"}
    /\ result = NoResult
    /\ werr = NoErr
    /\ ret = [returned |-> FALSE]
    /\ success = FALSE
    /\ ctxCancelled = FALSE
    /\ taskCtxCancelled = FALSE
    /\ collectorPc = "none"
    /\ relayPc = "none"
    /\ event = "none"
    /\ pending = <<>>
    /\ logChan = <<>>
    /\ logChanClosed = FALSE
    /\ stream = "none"
    /\ closeFuncCalled = FALSE
    /\ task = NoTask
    /\ nextEntry = 1
    /\ served = <<>>
    /\ relayed = <<>>
    /\ registry = Idle
    /\ deploy = Idle
    /\ cursorMode = Idle
    /\ prune = Idle
    /\ revisionsRun = Idle

\* checkTaskStatus is applied to the reply; its two results are kept.
WatcherCheck ==
    /\ pc = "inFlight"
    /\ success' = checkTaskStatus(lastReply).success
    /\ werr' = checkTaskStatus(lastReply).err
    /\ pc' = "checked"
    /\ UNCHANGED << argVars, sideVars, served, relayed, launchVars, calls, result,
                    ret, lastReply, ctxCancelled,
                    logVars, task >>

WatcherNext == WatcherCheck

WatcherSpec == WatcherInit /\ [][WatcherNext]_vars

\* ------------------------------------- resolver, cloneTaskDef and Deploy

\* Highest revision number a family holds before cloning.
MaxRevision == 2

\* Task-definition families of the registry.
Families == {"app", "worker"}

\* An ARN of a task definition: its family and revision.
Arn(family, revision) == [family |-> family, revision |-> revision]

\* The empty string returned next to an error.
NoArn == Arn("", 0)

\* A container without an image (Image == nil).
NilImage == <<"nil">>

\* Image references, each as the parts strings.Split(image, ":") yields: a
\* bare repository, a repository with a tag, a registry host with a port in
\* front of repository and tag, and an absent image.
ImageRefs ==
    { <<"repo">>, <<"repo", "v1">>, <<"registry", "5000/app", "v1">>, NilImage }

\* ContainerDefinitions of a task definition: none, one, or two containers.
ContainerLists ==
    {<<>>}
    \cup { << [Name |-> "main", Image |-> i] >> : i \in ImageRefs }
    \cup { << [Name |-> "main", Image |-> i],
              [Name |-> "sidecar", Image |-> <<"envoy", "v3">>] >> :
           i \in ImageRefs \ {NilImage} }

\* The control plane before the run: the service's configured definition (or
\* no such service), the revisions ListTaskDefinitions lists per family, the
\* containers of the registered definitions, and the definitions registered
\* and services updated by the run.
Registries ==
    [ service : {NoArn} \cup { Arn(f, r) : f \in Families, r \in 1..MaxRevision },
      listed : [Families -> SUBSET (1..MaxRevision)],
      containers : ContainerLists,
      registered : {<<>>},
      serviceUpdated : {FALSE} ]

\* The TaskDefinition that DescribeTaskDefinition returns for an ARN.
DescribedDefinition(reg, arn) ==
    [ Family |-> arn.family,
      Revision |-> arn.revision,
      Status |-> "ACTIVE",
      Cpu |-> "256",
      Memory |-> "512",
      RequiresCompatibilities |-> <<"FARGATE">>,
      ContainerDefinitions |-> reg.containers ]

\* ListTaskDefinitions that sorts ascending (the default order of the request).
ListDescending_Ascending(family, revisions) ==
    LET n == Cardinality(revisions)
        sorted == CHOOSE s \in [1..n -> revisions] :
                     \A i, j \in 1..n : i < j => s[i] < s[j]
    IN [i \in 1..n |-> Arn(family, sorted[i])]

\* ListTaskDefinitions with FamilyPrefix and Sort DESC: the family's listed
\* revisions, highest first.
ListDescending(family, revisions) ==
    LET n == Cardinality(revisions)
        sorted == CHOOSE s \in [1..n -> revisions] :
                     \A i, j \in 1..n : i < j => s[i] > s[j]
    IN [i \in 1..n |-> Arn(family, sorted[i])]

\* Execute's arguments and state while another entry point runs.
NotExecuting ==
    /\ pc = "idle"
    /\ waitForCompletion = FALSE
    /\ dockerImageTag = ""
    /\ svc = NoValue
    /\ tdef = NoValue
    /\ taskDef = ""
    /\ runTaskInput = NoValue
    /\ calls = {}
    /\ result = NoResult
    /\ werr = NoErr
    /\ ret = [returned |-> FALSE]
    /\ lastReply = NoReply
    /\ success = FALSE
    /\ ctxCancelled = FALSE
    /\ taskCtxCancelled = FALSE
    /\ collectorPc = "none"
    /\ relayPc = "none"
    /\ event = "none"
    /\ pending = <<>>
    /\ logChan = <<>>
    /\ logChanClosed = FALSE
    /\ stream = "none"
    /\ closeFuncCalled = FALSE
    /\ task = NoTask
    /\ nextEntry = 1
    /\ served = <<>>
    /\ relayed = <<>>

\* The variables of Execute and its goroutines.
executeVars ==
    << pc, argVars, launchVars, calls, result, werr, ret, lastReply, success,
       ctxCancelled, logVars, task, served, relayed >>

\* The callers of the resolver: latestTaskDefinitionArn on its own, Deploy and
\* the image-tag branch of Execute (both through cloneTaskDef).
Callers == {"latestTaskDefinitionArn", "Deploy", "Execute"}

NoDef == [present |-> FALSE]

DeployInit ==
    /\ NotExecuting
    /\ cursorMode = Idle
    /\ prune = Idle
    /\ revisionsRun = Idle
    /\ registry \in Registries
    /\ \E c \in Callers :
          deploy = [pc |-> "getFamilyPrefix", caller |-> c, dockerImageTag |-> "v2",
                    calls |-> <<>>, prefix |-> "", latestDef |-> NoArn,
                    latestErr |-> NoErr, source |-> NoDef, newDef |-> NoDef,
                    cloneErr |-> NoErr, arn |-> NoArn, err |-> NoErr]

\* fmt.Errorf("...: %w", err)
Wrap(msg, err) == [kind |-> "error", msg |-> msg, cause |-> err]

\* A request is recorded in the order it is issued.
Called(d, name) == [d EXCEPT !.calls = Append(@, name)]

\* cloneTaskDef returns (arn, err) to its caller: Deploy wraps the error and
\* otherwise updates the service; Execute returns the error as it is and
\* otherwise goes on to launch the task.
CloneReturn(d, arn, err) ==
    IF err # NoErr
    THEN [d EXCEPT !.pc = "done", !.arn = NoArn, !.cloneErr = err,
                   !.err = IF d.caller = "Deploy"
                           THEN Wrap("failed to clone task definition", err) ELSE err]
    ELSE [d EXCEPT !.pc = IF d.caller = "Deploy" THEN "UpdateService" ELSE "RunTask",
                   !.arn = arn]

\* latestTaskDefinitionArn returns (arn, err): to its own caller, or to
\* cloneTaskDef, which returns the error or goes on to describe the definition.
ResolverReturn(d, arn, err) ==
    LET r == [d EXCEPT !.latestDef = arn, !.latestErr = err]
    IN IF d.caller = "latestTaskDefinitionArn"
       THEN [r EXCEPT !.pc = "done", !.arn = arn, !.err = err]
       ELSE IF err # NoErr THEN CloneReturn(r, NoArn, err)
       ELSE [r EXCEPT !.pc = "describeLatest"]

\* getFamilyPrefix: DescribeServices, the first service, DescribeTaskDefinition
\* of the service's definition and its family.
GetFamilyPrefix ==
    /\ deploy.pc = "getFamilyPrefix"
    /\ LET d1 == Called(deploy, "DescribeServices")
           d2 == Called(d1, "DescribeTaskDefinition")
       IN \/ deploy' = ResolverReturn(d1, NoArn, Err("DescribeServices failed"))
          \/ /\ registry.service = NoArn
             /\ deploy' = ResolverReturn(d1, NoArn,
                                         Err("failed to get service information"))
          \/ /\ registry.service # NoArn
             /\ \/ \E msg \in {"DescribeTaskDefinition failed",
                               "task definition has no family name"} :
                      deploy' = ResolverReturn(d2, NoArn, Err(msg))
                \/ deploy' = [d2 EXCEPT !.prefix = registry.service.family,
                                        !.pc = "ListTaskDefinitions"]
    /\ UNCHANGED << executeVars, prune, revisionsRun, registry, cursorMode >>

\* latestTaskDefinitionArn after getFamilyPrefix: ListTaskDefinitions of the
\* family, sorted descending, and the first ARN of the reply.
ListTaskDefinitions ==
    /\ deploy.pc = "ListTaskDefinitions"
    /\ LET d1 == Called(deploy, "ListTaskDefinitions")
           arns == ListDescending(deploy.prefix, registry.listed[deploy.prefix])
       IN \/ deploy' = ResolverReturn(d1, NoArn, Err("ListTaskDefinitions failed"))
          \/ deploy' = IF arns = <<>>
                       THEN ResolverReturn(d1, NoArn,
                                           Err("failed to get task definition ARN"))
                       ELSE ResolverReturn(d1, arns[1], NoErr)
    /\ UNCHANGED << executeVars, prune, revisionsRun, registry, cursorMode >>

\* copier.Copy(newDef, response.TaskDefinition): the fields that
\* RegisterTaskDefinitionInput shares with TaskDefinition.
CopyToRegisterInput(def) ==
    [ present |-> TRUE,
      Family |-> def.Family,
      Cpu |-> def.Cpu,
      Memory |-> def.Memory,
      RequiresCompatibilities |-> def.RequiresCompatibilities,
      ContainerDefinitions |-> def.ContainerDefinitions ]

\* fmt.Sprintf("%s:%s", split[0], dockerImageTag) on split =
\* strings.Split(image, ":").
NewDockerURI(image, tag) == << image[1], tag >>

\* The error for a definition with several containers.
Unsupported ==
    Err("multiple container definitions in a single task are not supported")

\* The container checks with the first container taken whatever their number.
ContainerCheck_FirstContainerOnly(containers) ==
    IF Len(containers) = 0 THEN Err("failed to get container definition")
    ELSE IF containers[1].Image = NilImage
    THEN Err("container definition has no image specified")
    ELSE NoErr

\* The checks of cloneTaskDef on the described definition's containers: more
\* than one, none, and a first container without image are errors.
ContainerCheck(containers) ==
    IF Len(containers) > 1 THEN Unsupported
    ELSE IF Len(containers) = 0 THEN Err("failed to get container definition")
    ELSE IF containers[1].Image = NilImage
    THEN Err("container definition has no image specified")
    ELSE NoErr

\* cloneTaskDef after the resolver: DescribeTaskDefinition of the latest
\* definition, the container checks, the copy and the new image reference.
DescribeLatest ==
    /\ deploy.pc = "describeLatest"
    /\ LET d1 == Called(deploy, "DescribeTaskDefinition")
           def == DescribedDefinition(registry, deploy.latestDef)
           containers == def.ContainerDefinitions
           newDef == CopyToRegisterInput(def)
       IN \/ deploy' = CloneReturn(d1, NoArn, Err("DescribeTaskDefinition failed"))
          \/ deploy' =
                IF ContainerCheck(containers) # NoErr
                THEN CloneReturn(d1, NoArn, ContainerCheck(containers))
                ELSE [d1 EXCEPT
                        !.pc = "RegisterTaskDefinition",
                        !.source = def,
                        !.newDef = [newDef EXCEPT !.ContainerDefinitions[1].Image =
                                       NewDockerURI(containers[1].Image,
                                                    deploy.dockerImageTag)]]
    /\ UNCHANGED << executeVars, prune, revisionsRun, registry, cursorMode >>

\* The registry after RegisterTaskDefinition accepted newDef: one more
\* revision of its family.
Registered(reg, newDef) ==
    LET family == newDef.Family
        next == 1 + CHOOSE r \in reg.listed[family] :
                        \A q \in reg.listed[family] : q <= r
    IN [reg EXCEPT !.registered = Append(@, newDef),
                   !.listed[family] = @ \cup {next}]

\* cloneTaskDef: RegisterTaskDefinition of the new definition and the ARN of
\* the reply.
RegisterTaskDefinition ==
    /\ deploy.pc = "RegisterTaskDefinition"
    /\ LET d1 == Called(deploy, "RegisterTaskDefinition")
           reg == Registered(registry, deploy.newDef)
           family == deploy.newDef.Family
           arn == Arn(family, CHOOSE r \in reg.listed[family] :
                                  \A q \in reg.listed[family] : q <= r)
       IN \/ /\ deploy' = CloneReturn(d1, NoArn, Err("RegisterTaskDefinition failed"))
             /\ UNCHANGED registry
          \/ /\ deploy' = CloneReturn(d1, NoArn,
                              Err("invalid task definition response: missing ARN"))
             /\ registry' = reg
          \/ /\ deploy' = CloneReturn(d1, arn, NoErr)
             /\ registry' = reg
    /\ UNCHANGED << executeVars, prune, revisionsRun, cursorMode >>

\* Deploy after cloneTaskDef: UpdateService with the new definition.
UpdateService ==
    /\ deploy.pc = "UpdateService"
    /\ LET d1 == Called(deploy, "UpdateService")
           updated == [registry EXCEPT !.service = deploy.arn,
                                       !.serviceUpdated = TRUE]
       IN \/ /\ deploy' = [d1 EXCEPT !.pc = "done",
                                     !.arn = NoArn,
                                     !.err = Err("failed to update service")]
             /\ UNCHANGED registry
          \/ /\ deploy' = [d1 EXCEPT !.pc = "done", !.arn = NoArn,
                              !.err = Err("invalid service update response")]
             /\ registry' = updated
          \/ /\ deploy' = [d1 EXCEPT !.pc = "done"]
             /\ registry' = updated
    /\ UNCHANGED << executeVars, prune, revisionsRun, cursorMode >>

\* Execute after cloneTaskDef: the task is launched from the new definition.
RunTaskFromClone ==
    /\ deploy.pc = "RunTask"
    /\ deploy' = [Called(deploy, "RunTask") EXCEPT !.pc = "done"]
    /\ UNCHANGED << executeVars, prune, revisionsRun, registry, cursorMode >>

DeployNext ==
    \/ GetFamilyPrefix
    \/ ListTaskDefinitions
    \/ DescribeLatest
    \/ RegisterTaskDefinition
    \/ UpdateService
    \/ RunTaskFromClone

DeploySpec == DeployInit /\ [][DeployNext]_vars

\* ------------------------------------------ batch/cursor mode (pkg/ecs)

\* Log events the task writes to its stream during one run.
MaxStreamEvents == 2

\* Largest millisecond timestamp of a log event.
MaxTimestamp == 2

\* Log fetches of one wait.
MaxPolls == 3

\* A *int64 timestamp: nil, or a value.
NilTime == [set |-> FALSE, value |-> 0]

Time(t) == [set |-> TRUE, value |-> t]

\* The events FilterLogEvents returns for a start time: those of the stream at
\* or after it, in the stream's order; an event without a timestamp cannot be
\* compared and is returned too.
FilterLogEvents(events, startTime) ==
    SelectSeq(events, LAMBDA e : \/ ~startTime.set
                                 \/ ~e.ts.set
                                 \/ e.ts.value >= startTime.value)

\* The loop of getTaskLogs over output.Events: events lacking the stream name,
\* the message or the timestamp are skipped, the others become log entries.
RECURSIVE LogEntries(_)
LogEntries(events) ==
    IF events = <<>> THEN <<>>
    ELSE IF Head(events).ok /\ Head(events).ts.set
    THEN << [id |-> Head(events).id, Timestamp |-> Head(events).ts.value] >>
         \o LogEntries(Tail(events))
    ELSE LogEntries(Tail(events))

\* The cursor rule with an empty batch resetting the cursor to zero.
LastEventTimestamp_ResetOnEmpty(events, startTime) ==
    IF Len(events) > 0
    THEN LET lastEvent == events[Len(events)]
         IN IF ~lastEvent.ts.set
            THEN (IF startTime.set THEN startTime.value ELSE 0)
            ELSE lastEvent.ts.value + 1
    ELSE 0

\* lastEventTimestamp of getTaskLogs: one past the timestamp of the last event
\* of output.Events; the start time (or 0 without one) when that event has no
\* timestamp or when there is no event.
LastEventTimestamp(events, startTime) ==
    IF Len(events) > 0
    THEN LET lastEvent == events[Len(events)]
         IN IF ~lastEvent.ts.set
            THEN (IF startTime.set THEN startTime.value ELSE 0)
            ELSE lastEvent.ts.value + 1
    ELSE IF startTime.set THEN startTime.value
    ELSE 0

\* No fetch made yet.
NoFetch ==
    [made |-> FALSE, ok |-> FALSE, startTime |-> NilTime, events |-> <<>>,
     delivered |-> <<>>, logsBefore |-> <<>>, arrivedBefore |-> FALSE]

\* Execute of pkg/ecs has launched the task with waitForCompletion and enters
\* its loop: no cursor yet, no logs; the task's stream may already hold events.
BatchInit ==
    /\ NotExecuting
    /\ registry = Idle
    /\ deploy = Idle
    /\ prune = Idle
    /\ revisionsRun = Idle
    /\ cursorMode = [pc |-> "loopTop", lastTimestamp |-> NilTime, Logs |-> <<>>,
                     Finished |-> FALSE, err |-> NoErr, events |-> <<>>,
                     polls |-> 0, lastFetch |-> NoFetch, arrived |-> FALSE,
                     cancelled |-> FALSE]

\* The task writes a log event: appended to its stream with a timestamp not
\* before the last one's, possibly lacking the timestamp or another field.
LogEventArrives ==
    /\ cursorMode.pc # "returned"
    /\ Len(cursorMode.events) < MaxStreamEvents
    /\ LET events == cursorMode.events
           stamped == { i \in 1..Len(events) : events[i].ts.set }
           floor == IF stamped = {} THEN 1
                    ELSE events[CHOOSE i \in stamped : \A j \in stamped : j <= i].ts.value
       IN \E ts \in {NilTime} \cup { Time(t) : t \in floor..MaxTimestamp },
             ok \in BOOLEAN :
             cursorMode' = [cursorMode EXCEPT
                              !.events = Append(@, [id |-> Len(events) + 1,
                                                    ts |-> ts, ok |-> ok]),
                              !.arrived = TRUE]
    /\ UNCHANGED << executeVars, prune, revisionsRun, registry, deploy >>

\* The operator's interrupt during the batch-mode wait.
BatchCancel ==
    /\ cursorMode.pc # "returned"
    /\ ~cursorMode.cancelled
    /\ cursorMode' = [cursorMode EXCEPT !.cancelled = TRUE]
    /\ UNCHANGED << executeVars, prune, revisionsRun, registry, deploy >>

\* Top of the loop: the cancellation check.
BatchLoopTop ==
    /\ cursorMode.pc = "loopTop"
    /\ cursorMode' = IF cursorMode.cancelled
                     THEN [cursorMode EXCEPT !.pc = "returned", !.err = CtxErr]
                     ELSE [cursorMode EXCEPT !.pc = "getTaskLogs"]
    /\ UNCHANGED << executeVars, prune, revisionsRun, registry, deploy >>

\* getTaskLogs and what Execute does with its result: on an error nothing, on
\* success the entries are appended and the returned timestamp becomes the
\* cursor. Execute goes on to the status check either way.
BatchGetTaskLogs ==
    /\ cursorMode.pc = "getTaskLogs"
    /\ cursorMode.polls < MaxPolls
    /\ LET startTime == cursorMode.lastTimestamp
           output == FilterLogEvents(cursorMode.events, startTime)
           logs == LogEntries(output)
           fetch == [made |-> TRUE, ok |-> TRUE, startTime |-> startTime,
                     events |-> output, delivered |-> logs,
                     logsBefore |-> cursorMode.Logs,
                     arrivedBefore |-> cursorMode.arrived]
       IN \/ cursorMode' =
                [cursorMode EXCEPT
                   !.pc = "wait",
                   !.polls = @ + 1,
                   !.lastFetch = [fetch EXCEPT !.ok = FALSE, !.events = <<>>,
                                               !.delivered = <<>>]]
          \/ cursorMode' =
                [cursorMode EXCEPT
                   !.pc = "wait",
                   !.polls = @ + 1,
                   !.Logs = @ \o logs,
                   !.lastTimestamp = Time(LastEventTimestamp(output, startTime)),
                   !.arrived = FALSE,
                   !.lastFetch = fetch]
    /\ UNCHANGED << executeVars, prune, revisionsRun, registry, deploy >>

\* wait (the status check) and what the loop does with it: an error returns
\* the result with it, success sets Finished and leaves the loop, otherwise the
\* loop sleeps.
BatchWait ==
    /\ cursorMode.pc = "wait"
    /\ \/ \E err \in {Err("DescribeTasks failed"), TaskFailedErr(TaskArn, 1)} :
             cursorMode' = [cursorMode EXCEPT !.pc = "returned", !.err = err]
       \/ cursorMode' = [cursorMode EXCEPT !.pc = "returned", !.Finished = TRUE]
       \/ cursorMode' = [cursorMode EXCEPT !.pc = "sleep"]
    /\ UNCHANGED << executeVars, prune, revisionsRun, registry, deploy >>

\* The sleep between polls: ended by the cancellation or by the timer.
BatchSleep ==
    /\ cursorMode.pc = "sleep"
    /\ \/ /\ cursorMode.cancelled
          /\ cursorMode' = [cursorMode EXCEPT !.pc = "returned", !.err = CtxErr]
       \/ cursorMode' = [cursorMode EXCEPT !.pc = "loopTop"]
    /\ UNCHANGED << executeVars, prune, revisionsRun, registry, deploy >>

BatchNext ==
    \/ BatchLoopTop
    \/ BatchGetTaskLogs
    \/ BatchWait
    \/ BatchSleep
    \/ LogEventArrives
    \/ BatchCancel

BatchSpec == BatchInit /\ [][BatchNext]_vars

\* ------------------------------------------- prune (deregisterTaskFamily)

\* Most definitions the family lists.
MaxDefinitions == 3

\* Oldest registration of a listed definition, in whole days.
MaxDays == 1

\* Largest --keep-last and --keep-days values tried.
MaxKeepLast == 2

MaxKeepDays == 2

\* today.Sub(registeredAt).Hours() / 24
HoursPerDay == 24

\* Ages of a registration in hours: the first and the last hour of each day.
Ages == { d * HoursPerDay + h : d \in 0..MaxDays, h \in {0, HoursPerDay - 1} }

\* What DescribeTaskDefinition answers for a listed definition: an error, a
\* definition without RegisteredAt, or a definition registered so many hours
\* ago.
DescribeAnswers ==
    {[kind |-> "error"], [kind |-> "noRegisteredAt"]}
    \cup { [kind |-> "ok", hours |-> a] : a \in Ages }

\* The ARNs ListTaskDefinitions lists for the family with Sort DESC, the most
\* recent revision first, each with the answer a describe request gets: a
\* more recent revision was not registered before an older one.
ListedFamilies ==
    { f \in UNION { [1..n -> DescribeAnswers] : n \in 0..MaxDefinitions } :
        \A i \in 1..Len(f) : \A j \in 1..Len(f) :
            (i < j /\ f[i].kind = "ok" /\ f[j].kind = "ok")
            => f[i].hours <= f[j].hours }

\* diffInDays := int(today.Sub(*RegisteredAt).Hours() / 24)
DiffInDays(hours) == hours \div HoursPerDay

PruneInit ==
    /\ NotExecuting
    /\ registry = Idle
    /\ deploy = Idle
    /\ cursorMode = Idle
    /\ revisionsRun = Idle
    /\ \E f \in ListedFamilies, n \in 0..MaxKeepLast, d \in 0..MaxKeepDays,
          dry \in BOOLEAN :
          prune = [pc |-> "list", family |-> f, keepLast |-> n, keepDays |-> d,
                   dryRun |-> dry, listed |-> 0, page |-> <<>>,
                   nextToken |-> FALSE, totalCount |-> 0, deleted |-> 0,
                   keep |-> 0, processedTasks |-> <<>>, requests |-> <<>>,
                   deregistered |-> {}, skipped |-> 0, err |-> NoErr]

\* svc.ListTaskDefinitions: an error ends the run with zero counts; otherwise
\* the next page of the listing arrives, with a token while more is left, and
\* its length is added to totalCount.
PruneListTaskDefinitions ==
    /\ prune.pc = "list"
    /\ LET left == Len(prune.family) - prune.listed
       IN \/ prune' = [prune EXCEPT
                          !.pc = "returned",
                          !.totalCount = 0, !.deleted = 0, !.skipped = 0,
                          !.processedTasks = <<>>,
                          !.err = Wrap("loading the list of definitions failed",
                                       Err("ListTaskDefinitions failed"))]
          \/ \E count \in (IF left = 0 THEN {0} ELSE 1..left) :
                prune' = [prune EXCEPT
                            !.pc = "range",
                            !.page = [k \in 1..count |-> prune.listed + k],
                            !.listed = @ + count,
                            !.nextToken = (prune.listed + count < Len(prune.family)),
                            !.totalCount = @ + count]
    /\ UNCHANGED << executeVars, registry, deploy, cursorMode, revisionsRun >>

\* The decision with keep-last compared one too low.
PruneDecision_KeepLastOffByOne(answer, keep, keepLast, keepDays) ==
    IF answer.kind = "error" THEN "describe failed"
    ELSE IF answer.kind = "noRegisteredAt" THEN "missing date"
    ELSE IF keep + 1 < keepLast THEN "keep last"
    ELSE IF DiffInDays(answer.hours) < keepDays THEN "keep days"
    ELSE "deregister"

\* What the loop body decides for one listed definition, in the order of its
\* checks: describe error, missing registration date, keep-last, keep-days,
\* otherwise deregistration.
PruneDecision(answer, keep, keepLast, keepDays) ==
    IF answer.kind = "error" THEN "describe failed"
    ELSE IF answer.kind = "noRegisteredAt" THEN "missing date"
    ELSE IF keep < keepLast THEN "keep last"
    ELSE IF DiffInDays(answer.hours) < keepDays THEN "keep days"
    ELSE "deregister"

\* A TaskDefinitionPruneEntry: the ARN and the action reported for it.
PruneEntry(def, action) == [Arn |-> def, Action |-> action]

\* One pass of the loop over resp.TaskDefinitionArns: DescribeTaskDefinition,
\* the decision, and for a definition to delete the DeregisterTaskDefinition
\* request unless dryRun; a failed request is reported as skipped and taken
\* back from the deleted count.
PruneDefinition ==
    /\ prune.pc = "range"
    /\ prune.page # <<>>
    /\ LET def == Head(prune.page)
           decision == PruneDecision(prune.family[def], prune.keep,
                                     prune.keepLast, prune.keepDays)
           rest == [prune EXCEPT !.page = Tail(@)]
       IN IF decision \in {"describe failed", "missing date"}
          THEN prune' = [rest EXCEPT
                           !.processedTasks = Append(@, PruneEntry(def, "skipped"))]
          ELSE IF decision = "keep last"
          THEN prune' = [rest EXCEPT
                           !.processedTasks = Append(@, PruneEntry(def, "kept")),
                           !.keep = @ + 1]
          ELSE IF decision = "keep days"
          THEN prune' = [rest EXCEPT
                           !.processedTasks = Append(@, PruneEntry(def, "kept"))]
          ELSE IF prune.dryRun
          THEN prune' = [rest EXCEPT
                           !.deleted = @ + 1,
                           !.processedTasks = Append(@, PruneEntry(def, "deleted"))]
          ELSE \/ prune' = [rest EXCEPT
                              !.requests = Append(@, def),
                              !.processedTasks = Append(@, PruneEntry(def, "skipped"))]
               \/ prune' = [rest EXCEPT
                              !.requests = Append(@, def),
                              !.deregistered = @ \cup {def},
                              !.deleted = @ + 1,
                              !.processedTasks = Append(@, PruneEntry(def, "deleted"))]
    /\ UNCHANGED << executeVars, registry, deploy, cursorMode, revisionsRun >>

\* After the page: without a NextToken the loop ends and the counts are
\* returned, with one the next page is requested.
PruneEndOfPage ==
    /\ prune.pc = "range"
    /\ prune.page = <<>>
    /\ prune' = IF prune.nextToken
                THEN [prune EXCEPT !.pc = "list"]
                ELSE [prune EXCEPT
                        !.pc = "returned",
                        !.skipped = prune.totalCount - prune.deleted - prune.keep]
    /\ UNCHANGED << executeVars, registry, deploy, cursorMode, revisionsRun >>

PruneNext ==
    \/ PruneListTaskDefinitions
    \/ PruneDefinition
    \/ PruneEndOfPage

PruneSpec == PruneInit /\ [][PruneNext]_vars

\* ------------------------------------------------- revisions (getRevisions)

\* Largest number of last revisions asked for; 0 asks for all of them.
MaxLastRevisions == 2

\* What DescribeTaskDefinition answers for a listed definition, as far as
\* getRevisions looks at it: an error, a definition without RegisteredAt,
\* without container definitions, without image, or a complete one.
RevisionAnswers ==
    { [kind |-> k] : k \in {"error", "noRegisteredAt", "noContainers",
                            "noImage", "ok"} }

\* The ARNs ListTaskDefinitions lists for the family, most recent first, each
\* with the answer a describe request gets.
RevisionFamilies ==
    UNION { [1..n -> RevisionAnswers] : n \in 0..MaxDefinitions }

RevisionsInit ==
    /\ NotExecuting
    /\ registry = Idle
    /\ deploy = Idle
    /\ cursorMode = Idle
    /\ prune = Idle
    /\ \E f \in RevisionFamilies, n \in 0..MaxLastRevisions :
          revisionsRun = [pc |-> "list", family |-> f, lastRevisionsNr |-> n,
                          listed |-> 0, page |-> <<>>, nextToken |-> FALSE,
                          total |-> 0, revisions |-> <<>>, calls |-> <<>>,
                          err |-> NoErr]

\* svc.ListTaskDefinitions: an error ends the run with no revisions;
\* otherwise the next page of the listing arrives, with a token while more is
\* left.
RevisionsListTaskDefinitions ==
    /\ revisionsRun.pc = "list"
    /\ LET left == Len(revisionsRun.family) - revisionsRun.listed
           called == [revisionsRun EXCEPT
                        !.calls = Append(@, "ListTaskDefinitions")]
       IN \/ revisionsRun' = [called EXCEPT
                                !.pc = "returned",
                                !.revisions = <<>>,
                                !.err = Err("ListTaskDefinitions failed")]
          \/ \E count \in (IF left = 0 THEN {0} ELSE 1..left) :
                revisionsRun' =
                   [called EXCEPT
                      !.pc = "range",
                      !.page = [k \in 1..count |-> revisionsRun.listed + k],
                      !.listed = @ + count,
                      !.nextToken = (revisionsRun.listed + count
                                       < Len(revisionsRun.family))]
    /\ UNCHANGED << executeVars, registry, deploy, cursorMode, prune >>

\* The test at the top of the loop body: enough revisions are collected.
EnoughRevisions(lastRevisionsNr, total) ==
    lastRevisionsNr # 0 /\ lastRevisionsNr < total + 1

\* One pass of the loop over response.TaskDefinitionArns: with enough
\* revisions collected the loop over this page is left (break); otherwise
\* DescribeTaskDefinition is called and a complete definition is appended to
\* the revisions, any other one is passed over.
RevisionsDefinition ==
    /\ revisionsRun.pc = "range"
    /\ revisionsRun.page # <<>>
    /\ LET def == Head(revisionsRun.page)
       IN IF EnoughRevisions(revisionsRun.lastRevisionsNr, revisionsRun.total)
          THEN revisionsRun' = [revisionsRun EXCEPT !.page = <<>>]
          ELSE IF revisionsRun.family[def].kind = "ok"
          THEN revisionsRun' = [revisionsRun EXCEPT
                                  !.page = Tail(@),
                                  !.calls = Append(@, "DescribeTaskDefinition"),
                                  !.revisions = Append(@, def),
                                  !.total = @ + 1]
          ELSE revisionsRun' = [revisionsRun EXCEPT
                                  !.page = Tail(@),
                                  !.calls = Append(@, "DescribeTaskDefinition")]
    /\ UNCHANGED << executeVars, registry, deploy, cursorMode, prune >>

\* After the loop over the page: without a NextToken the outer loop ends and
\* the revisions are returned, with one the next page is requested.
RevisionsEndOfPage ==
    /\ revisionsRun.pc = "range"
    /\ revisionsRun.page = <<>>
    /\ revisionsRun' = [revisionsRun EXCEPT
                          !.pc = IF revisionsRun.nextToken THEN "list"
                                 ELSE "returned"]
    /\ UNCHANGED << executeVars, registry, deploy, cursorMode, prune >>

RevisionsNext ==
    \/ RevisionsListTaskDefinitions
    \/ RevisionsDefinition
    \/ RevisionsEndOfPage

RevisionsSpec == RevisionsInit /\ [][RevisionsNext]_vars

\* ------------------------------------------------------ the run command

\* runHandler of the run command: an error of ecs.Execute is returned as it
\* is, before anything is printed; otherwise the handler prints and returns
\* nil.
RunHandlerErr(r) == r.err

\* Execute of the root command: any error of the command ends the process
\* with os.Exit(1); without an error main returns and the status is 0.
ExitStatus(err) == IF err # NoErr THEN 1 ELSE 0

\* ------------------------------------------------------------------ claims

\* A reply that describes a STOPPED task with a container, an exit code and
\* an ARN.
StoppedReply(r) ==
    /\ r.received
    /\ r.err = "nil"
    /\ r.tasks = 1
    /\ r.lastStatus = "STOPPED"
    /\ r.containers = 1
    /\ r.hasExitCode
    /\ r.taskArn # "nil"

\* A reply that carries a status other than STOPPED.
RunningReply(r) ==
    /\ r.received
    /\ r.err = "nil"
    /\ r.tasks = 1
    /\ r.lastStatus \notin {"nil", "STOPPED"}

\* Positions of Execute inside the poll loop of waitForTaskCompletion.
WaitLoopPcs == {"loopTop", "inFlight", "sleep", "waitLogsDone"}

\* C1: when Execute waits and the poll sees the task STOPPED with a nonzero
\* exit code, Execute returns a non-nil result together with a non-nil error
\* that carries the task ARN and the container's exit code.
C1_FailedTaskReturnsResultAndError ==
    (ret.returned /\ waitForCompletion /\ StoppedReply(lastReply)
       /\ lastReply.exitCode # 0)
    => /\ ret.hasResult
       /\ ~result.isNil
       /\ ret.err = TaskFailedErr(result.TaskArn, task.exitCode)
       /\ ret.err # NoErr

C1_Witness ==
    /\ ret.returned
    /\ waitForCompletion
    /\ StoppedReply(lastReply)
    /\ lastReply.exitCode = 137
    /\ Len(result.Logs) > 0

\* C2 (as claimed): on every exit path of the wait Execute returns only after
\* the log-collecting goroutine has signalled its end, so that the result is
\* not written any more once Execute has returned it.
C2_NoAppendAfterReturn ==
    [][ret.returned => result' = result]_vars

\* C3: Finished is set and a task-failed error is produced only after a poll
\* returned the status STOPPED, and a poll that returns another status
\* leaves the wait running: it goes to sleep with the result untouched.
C3_TerminalOnlyAfterStopped ==
    /\ []( ( \/ (~result.isNil /\ result.Finished)
             \/ werr.kind = "task failed"
             \/ (ret.returned /\ ret.err.kind = "task failed") )
           => (lastReply.received /\ lastReply.err = "nil" /\ lastReply.tasks = 1
                 /\ lastReply.lastStatus = "STOPPED") )
    /\ [][ (pc = "inFlight" /\ pc' # "inFlight" /\ RunningReply(lastReply'))
           => (pc' = "sleep" /\ result' = result /\ werr' = NoErr /\ ~ret'.returned) ]_vars

C3_Witness ==
    /\ ~result.isNil
    /\ result.Finished
    /\ ret.returned
    /\ ret.err = NoErr

\* C4: for a reply describing a STOPPED task with a container, an exit code e
\* and an ARN, checkTaskStatus returns (true, nil) when e = 0 and (true,
\* task-failed error with the ARN and e) otherwise; for a reply with any other
\* status it returns (false, nil).
C4_WatcherVerdict ==
    pc = "checked" =>
       /\ (StoppedReply(lastReply) /\ lastReply.exitCode = 0)
             => (success /\ werr = NoErr)
       /\ (StoppedReply(lastReply) /\ lastReply.exitCode # 0)
             => (success /\ werr = TaskFailedErr(lastReply.taskArn, lastReply.exitCode))
       /\ RunningReply(lastReply) => (~success /\ werr = NoErr)

C4_Witness ==
    /\ pc = "checked"
    /\ StoppedReply(lastReply)
    /\ lastReply.exitCode = 137
    /\ success

C6_TaskNeverStopped ==
    /\ []("StopTask" \notin calls)
    /\ [][ (task.status # "none" /\ task' # task) => pc' = pc ]_vars

C6_Witness ==
    /\ ret.returned
    /\ ret.err = CtxErr
    /\ task.status = "RUNNING"
    /\ closeFuncCalled

\* C7: once the live-tail stream was opened, closeFunc has been invoked by the
\* time waitForTaskCompletion has returned, whatever the exit path.
C7_StreamClosedOnReturn ==
    (ret.returned /\ stream # "none") => (closeFuncCalled /\ stream = "closed")

C7_Witness ==
    /\ ret.returned
    /\ closeFuncCalled
    /\ ret.err = Err("DescribeTasks failed")
    /\ relayPc # "exited"

\* C8 (as claimed): after closeFunc was invoked the relay goroutine eventually
\* returns and closes the log channel.
C8_RelayEndsAfterClose ==
    closeFuncCalled ~> (relayPc = "exited" /\ logChanClosed)

\* C9: without waitForCompletion, a successful launch returns at once with
\* Finished false, no logs and a nil error, and no status poll, identity
\* lookup, log stream or log fetch is ever requested.
C9_NoWaitReturnsAfterLaunch ==
    ~waitForCompletion =>
       /\ calls \cap {"DescribeTasks", "GetCallerIdentity", "StartLiveTail",
                      "FilterLogEvents"} = {}
       /\ pc \notin WaitLoopPcs \cup {"GetCallerIdentity", "TailLogGroups",
                                      "startCollector"}
       /\ collectorPc = "none" /\ relayPc = "none"
       /\ ~result.isNil =>
             /\ ret.returned /\ ret.hasResult /\ ret.err = NoErr
             /\ ~result.Finished
             /\ result.Logs = <<>>

C9_Witness ==
    /\ ~waitForCompletion
    /\ ret.returned
    /\ ret.hasResult
    /\ "RunTask" \in calls

\* C10: the run request carries exactly one placement mode: the service's
\* non-empty capacity-provider strategy unchanged and no launch type, or no
\* strategy and the definition's first required compatibility as launch type.
C10_OnePlacementMode ==
    runTaskInput.present =>
       LET p == runTaskInput.placement
           strategy == svc.capacityProviderStrategy
       IN /\ (Len(p.CapacityProviderStrategy) > 0) # (p.LaunchType # Absent)
          /\ Len(strategy) > 0 =>
                (p.CapacityProviderStrategy = strategy /\ p.LaunchType = Absent)
          /\ Len(strategy) = 0 =>
                /\ p.CapacityProviderStrategy = <<>>
                /\ p.LaunchType = tdef.RequiresCompatibilities[1]

C10_Witness ==
    /\ runTaskInput.present
    /\ Len(svc.capacityProviderStrategy) = 2
    /\ tdef.RequiresCompatibilities = <<"EC2", "FARGATE">>
    /\ pc = "RunTask"

\* C11: the run request carries the network field exactly when the service
\* declares a subnet or a security group, and then with the service's lists;
\* a service without network configuration, or with one that declares
\* neither, gives a request without the field (not one with empty lists).
C11_NetworkFieldIffDeclared ==
    runTaskInput.present =>
       LET n == svc.network
           f == runTaskInput.NetworkConfiguration
           declared == n.present /\ (Len(n.subnets) > 0 \/ Len(n.securityGroups) > 0)
       IN /\ f.present <=> declared
          /\ f.present => /\ f.Subnets = n.subnets
                          /\ f.SecurityGroups = n.securityGroups
                          /\ Len(f.Subnets) + Len(f.SecurityGroups) > 0

C11_Witness ==
    /\ runTaskInput.present
    /\ svc.network.present
    /\ svc.network.subnets = <<>>
    /\ svc.network.securityGroups = <<>>
    /\ ~runTaskInput.NetworkConfiguration.present
    /\ pc = "RunTask"

\* C12 (as claimed): for a source definition with one container, the
\* definition cloneTaskDef registers equals the source in every field but the
\* container's image, and the new image is the part of the original before its
\* last ':' followed by ':' and the override tag.
C12_CloneKeepsRepository ==
    \A i \in 1..Len(registry.registered) :
       LET new == registry.registered[i]
           src == deploy.source
           image == src.ContainerDefinitions[1].Image
           repo == IF Len(image) = 1 THEN image ELSE SubSeq(image, 1, Len(image) - 1)
       IN /\ Len(src.ContainerDefinitions) = 1
          /\ new.Family = src.Family
          /\ new.Cpu = src.Cpu
          /\ new.Memory = src.Memory
          /\ new.RequiresCompatibilities = src.RequiresCompatibilities
          /\ Len(new.ContainerDefinitions) = 1
          /\ new.ContainerDefinitions[1].Name = src.ContainerDefinitions[1].Name
          /\ new.ContainerDefinitions[1].Image = repo \o <<deploy.dockerImageTag>>

\* C13: for a source definition with two or more containers, cloneTaskDef
\* registers nothing and, once the definition was described, fails with the
\* unsupported error; neither Deploy nor Execute then updates a service or
\* launches a task.
C13_MultiContainerUnsupported ==
    (Len(registry.containers) >= 2 /\ deploy.caller \in {"Deploy", "Execute"}) =>
       /\ registry.registered = <<>>
       /\ ~registry.serviceUpdated
       /\ \A i \in 1..Len(deploy.calls) :
             deploy.calls[i] \notin {"RegisterTaskDefinition", "UpdateService",
                                     "RunTask"}
       /\ deploy.pc \notin {"RegisterTaskDefinition", "UpdateService", "RunTask"}
       /\ deploy.pc = "done" =>
             /\ deploy.cloneErr # NoErr
             /\ deploy.err # NoErr
             /\ deploy.arn = NoArn
             /\ (Len(deploy.calls) = 4
                   /\ deploy.cloneErr # Err("DescribeTaskDefinition failed"))
                => /\ deploy.cloneErr = Unsupported
                   /\ deploy.caller = "Execute" => deploy.err = Unsupported
                   /\ deploy.caller = "Deploy" => deploy.err.cause = Unsupported

C13_Witness ==
    /\ Len(registry.containers) = 2
    /\ deploy.caller = "Deploy"
    /\ deploy.pc = "done"
    /\ deploy.cloneErr = Unsupported
    /\ Len(deploy.calls) = 4

\* The highest revision ListTaskDefinitions lists for a family.
HighestListed(reg, family) ==
    CHOOSE r \in reg.listed[family] : \A q \in reg.listed[family] : q <= r

\* The resolver has returned (to its caller or into cloneTaskDef).
ResolverReturned == deploy.pc \notin {"getFamilyPrefix", "ListTaskDefinitions"}

\* C14: the resolver returns the highest listed revision of the family of the
\* service's configured definition, whatever revision the service is
\* configured with; without a service or with an empty family listing it
\* returns an error and no ARN; and it issues read requests only, leaving the
\* registry as it was.
C14_ResolverReturnsLatest ==
    /\ []( (ResolverReturned /\ registry.registered = <<>>
              /\ ~registry.serviceUpdated) =>
            /\ deploy.latestErr = NoErr =>
                  /\ registry.service # NoArn
                  /\ deploy.latestDef =
                        Arn(registry.service.family,
                            HighestListed(registry, registry.service.family))
            /\ deploy.latestErr # NoErr => deploy.latestDef = NoArn
            /\ registry.service = NoArn => deploy.latestErr # NoErr
            /\ (registry.service # NoArn
                  /\ registry.listed[registry.service.family] = {})
               => deploy.latestErr # NoErr )
    /\ []( deploy.caller = "latestTaskDefinitionArn" =>
             \A i \in 1..Len(deploy.calls) :
                deploy.calls[i] \in {"DescribeServices", "DescribeTaskDefinition",
                                     "ListTaskDefinitions"} )
    /\ [][ deploy.caller = "latestTaskDefinitionArn" => registry' = registry ]_vars

C14_Witness ==
    /\ deploy.caller = "latestTaskDefinitionArn"
    /\ deploy.pc = "done"
    /\ deploy.err = NoErr
    /\ registry.service = Arn("worker", 1)
    /\ registry.listed["worker"] = {1, 2}
    /\ deploy.arn = Arn("worker", 2)

\* C15: a fetch that returns no event leaves the cursor where it was (an
\* absent cursor becomes 0, the same lower edge; a nonzero cursor is not reset
\* to zero), and a fetch made with an established cursor and no event written
\* since the fetch before it yields that same cursor again.
C15_EmptyBatchKeepsCursor ==
    LET f == cursorMode.lastFetch
        c == cursorMode.lastTimestamp
    IN (cursorMode.pc # "idle" /\ f.made /\ f.ok) =>
          /\ c.set
          /\ f.events = <<>> => c.value = f.startTime.value
          /\ (f.events = <<>> /\ f.startTime.set) => c = f.startTime
          /\ (f.events = <<>> /\ f.startTime.value # 0) => c.value # 0
          /\ (f.startTime.set /\ ~f.arrivedBefore) => c = f.startTime

C15_Witness ==
    /\ cursorMode.pc = "wait"
    /\ cursorMode.lastFetch.ok
    /\ cursorMode.lastFetch.events = <<>>
    /\ cursorMode.lastFetch.startTime = Time(2)
    /\ cursorMode.lastTimestamp = Time(2)
    /\ Len(cursorMode.Logs) > 0

\* C16 (as claimed): after a fetch that delivered at least one entry, the
\* cursor is greater than the timestamp of every entry that fetch delivered,
\* whatever fields other events of the batch lack.
C16_CursorPastDelivered ==
    LET f == cursorMode.lastFetch
    IN (cursorMode.pc # "idle" /\ f.made /\ f.ok) =>
          \A i \in 1..Len(f.delivered) :
             cursorMode.lastTimestamp.value > f.delivered[i].Timestamp

\* C17 (as claimed): a failed fetch appends nothing and leaves the cursor
\* unchanged, and after a successful fetch the cursor does not exceed the
\* timestamp of any well-formed event of the stream that is not in
\* result.Logs.
C17_CursorNotPastUnretrieved ==
    LET f == cursorMode.lastFetch
        c == cursorMode.lastTimestamp
        appended == { cursorMode.Logs[i].id : i \in 1..Len(cursorMode.Logs) }
    IN cursorMode.pc # "idle" =>
          /\ (f.made /\ ~f.ok) => (cursorMode.Logs = f.logsBefore /\ c = f.startTime)
          /\ (f.made /\ f.ok /\ cursorMode.pc = "wait") =>
                \A i \in 1..Len(cursorMode.events) :
                   LET e == cursorMode.events[i]
                   IN (e.ok /\ e.ts.set /\ e.id \notin appended)
                      => c.value <= e.ts.value

\* C18: the entries the relay has sent on the channel are, in server order,
\* the well-formed log events of the session updates served so far: always a
\* prefix of them, with only the entries still to be sent missing, and all of
\* them whenever the relay is back at its select; session-start events add
\* nothing, and nothing is duplicated, reordered or dropped.
C18_RelayDeliversInOrder ==
    LET wellFormed == SelectSeq(served, LAMBDA r : r.wf)
        expected == [i \in 1..Len(wellFormed) |-> wellFormed[i].id]
    IN /\ Len(relayed) <= Len(expected)
       /\ relayed = SubSeq(expected, 1, Len(relayed))
       /\ relayPc \in {"select", "send"} => relayed \o pending = expected
       /\ relayPc = "select" => relayed = expected

C18_Witness ==
    /\ relayPc = "select"
    /\ event = "SessionStart"
    /\ Len(served) = 3
    /\ Len(relayed) = 2
    /\ served[2].wf = FALSE
    /\ ~ctxCancelled

\* C19 (as claimed): once the relay has received an event of an unrecognized
\* type or a nil event, it has returned and the log channel is closed.
C19_BadEventEndsRelay ==
    event \in {"Unknown", "nil"} => (relayPc = "exited" /\ logChanClosed)

\* C20: when the relay has ended, the poll loop still polls (an uncancelled
\* loop top sends the next status request), the wait returns only the
\* context's error or the outcome of a status check, never an error of the
\* stream, a poll that saw the task stopped with exit code 0 makes Execute
\* return the result Finished with a nil error, the collected entries are
\* kept, and the wait on the collector's end always finishes.
C20_RelayEndDoesNotFailWait ==
    /\ [][ (relayPc = "exited" /\ pc = "loopTop" /\ ~ctxCancelled /\ pc' # pc)
           => pc' = "inFlight" ]_vars
    /\ [][ (relayPc = "exited" /\ pc \in WaitLoopPcs /\ pc' = "returned")
           => \/ ret'.err = CtxErr
              \/ ret'.err = NoErr
              \/ pc = "inFlight" /\ ret'.err = checkTaskStatus(lastReply').err ]_vars
    /\ []( (ret.returned /\ relayPc = "exited" /\ StoppedReply(lastReply)
              /\ lastReply.exitCode = 0)
           => (ret.hasResult /\ ret.err = NoErr /\ result.Finished) )
    /\ [][ ~result.isNil
           => /\ Len(result'.Logs) >= Len(result.Logs)
              /\ SubSeq(result'.Logs, 1, Len(result.Logs)) = result.Logs ]_vars
    /\ ( (relayPc = "exited" /\ pc = "waitLogsDone") ~> ret.returned )

C20_Witness ==
    /\ ret.returned
    /\ ret.err = NoErr
    /\ result.Finished
    /\ relayPc = "exited"
    /\ event = "nil"
    /\ ~ctxCancelled
    /\ Len(result.Logs) = 2
    /\ Len(relayed) = 2

\* Requests that belong to the wait: status polls, the identity lookup and the
\* log stream.
WaitCalls == {"DescribeTasks", "GetCallerIdentity", "StartLiveTail"}

\* C21: what Execute returns depends on the phase that failed. A failure up to
\* and including the run request returns a nil result with the error, and no
\* poll, identity lookup, stream or goroutine was ever started; any failure
\* after the launch returns the non-nil result, holding the task ARN and the
\* logs collected so far, together with the error.
C21_ReturnShapeByPhase ==
    ret.returned =>
       /\ ret.hasResult <=> ~result.isNil
       /\ ~ret.hasResult =>
             /\ ret.err # NoErr
             /\ task.status = "none"
             /\ calls \cap WaitCalls = {}
             /\ collectorPc = "none"
             /\ relayPc = "none"
             /\ stream = "none"
       /\ ret.hasResult =>
             /\ "RunTask" \in calls
             /\ task.status # "none"
             /\ result.TaskArn = TaskArn
             /\ (calls \cap WaitCalls # {}) => waitForCompletion
             /\ (ret.err # NoErr) => ("GetCallerIdentity" \in calls /\ ret.err = werr)

C21_Witness ==
    /\ ret.returned
    /\ ret.hasResult
    /\ ret.err = Err("failed to start log tailing")
    /\ result.TaskArn = TaskArn
    /\ result.Logs = <<>>

\* C22 (as claimed): with --wait, once the task was seen STOPPED the exit
\* status of the command's process is the container's exit code: 0 when the
\* container exited with 0, the nonzero code otherwise.
C22_ExitStatusIsContainerExitCode ==
    (ret.returned /\ waitForCompletion /\ StoppedReply(lastReply))
    => ExitStatus(RunHandlerErr(ret)) = lastReply.exitCode

\* The poll loop has not yet observed the terminal status of the task.
BeforeTerminalStatus == pc \in WaitLoopPcs /\ ~StoppedReply(lastReply)

\* C23 (as claimed), for a wait that nobody interrupts: with --wait, every
\* entry the relay had passed on before the poll observed the terminal status
\* is in result.Logs once the wait has ended: none of them is left behind in
\* the channel buffer or dropped. The entries arrive in order, so the first n
\* passed on are in result.Logs as soon as it holds n entries.
C23_AcceptedLogsReachResult ==
    \A n \in 1..MaxEntries :
        []( (BeforeTerminalStatus /\ Len(relayed) >= n)
            => [](  (ret.returned /\ StoppedReply(lastReply) /\ ~ctxCancelled)
                    => Len(result.Logs) >= n ) )

\* C24: result.Logs changes only in a step of the collector goroutine, which
\* appends the entry it received and touches nothing else of the result;
\* result.Finished changes only in a step of the poll loop, which leaves the
\* logs alone. No step writes both fields and no field has two writers.
C24_OneWriterPerField ==
    [][ (~result.isNil /\ ~result'.isNil) =>
          /\ (result'.Logs # result.Logs) =>
                /\ collectorPc = "running"
                /\ Len(logChan) > 0
                /\ result'.Logs = Append(result.Logs, Head(logChan))
                /\ result'.Finished = result.Finished
                /\ pc' = pc
                /\ relayPc' = relayPc
          /\ (result'.Finished # result.Finished) =>
                /\ pc = "inFlight"
                /\ pc' = "waitLogsDone"
                /\ result'.Finished
                /\ result'.Logs = result.Logs
                /\ collectorPc' = collectorPc
                /\ relayPc' = relayPc ]_vars

C24_Witness ==
    /\ pc = "waitLogsDone"
    /\ ~result.isNil
    /\ result.Finished
    /\ Len(result.Logs) = 2
    /\ collectorPc = "running"

IncompleteReply(r) ==
    /\ r.received
    /\ r.err = "nil"
    /\ \/ r.tasks = 0
       \/ r.lastStatus = "nil"
       \/ /\ r.lastStatus = "STOPPED"
          /\ (r.containers = 0 \/ ~r.hasExitCode \/ r.taskArn = "nil")

\* C26: a poll answered by a structurally incomplete reply ends the poll loop
\* at once: Execute returns the result with the error naming what is missing,
\* not a task failure, and Finished stays false, also afterwards.
C26_IncompleteReplyEndsWait ==
    /\ [][ (pc = "inFlight" /\ pc' # "inFlight" /\ IncompleteReply(lastReply'))
           => /\ pc' = "returned"
              /\ ~success'
              /\ ret'.hasResult
              /\ ret'.err \in { Err(m) : m \in {"failed to get task information",
                                                "task has no status information",
                                                "failed to get container information",
                                                "stopped container has no exit code",
                                                "task has no ARN"} }
              /\ werr' = ret'.err
              /\ result' = result
              /\ ~result'.Finished ]_vars
    /\ []( (ret.returned /\ IncompleteReply(lastReply))
           => (~result.Finished /\ ret.err # NoErr) )

C26_Witness ==
    /\ ret.returned
    /\ IncompleteReply(lastReply)
    /\ lastReply.lastStatus = "STOPPED"
    /\ ~lastReply.hasExitCode
    /\ ret.err = Err("stopped container has no exit code")
    /\ ~result.Finished

\* C27 (as claimed): with a count N > 0 the revision listing returns at most
\* N revisions and, once N are collected, sends no further list-page and no
\* further describe request, whatever continuation token it holds; with
\* N = 0 it follows the token to the end and returns the complete definitions
\* of all pages.
C27_RevisionListingStopsEarly ==
    /\ []( (revisionsRun.pc # "idle" /\ revisionsRun.lastRevisionsNr > 0)
           => Len(revisionsRun.revisions) <= revisionsRun.lastRevisionsNr )
    /\ [][ ( /\ revisionsRun.pc # "idle"
             /\ revisionsRun.lastRevisionsNr > 0
             /\ Len(revisionsRun.revisions) >= revisionsRun.lastRevisionsNr )
           => revisionsRun'.calls = revisionsRun.calls ]_vars
    /\ []( ( /\ revisionsRun.pc = "returned"
             /\ revisionsRun.err = NoErr
             /\ revisionsRun.lastRevisionsNr = 0 )
           => /\ revisionsRun.listed = Len(revisionsRun.family)
              /\ { revisionsRun.revisions[k] : k \in 1..Len(revisionsRun.revisions) }
                   = { i \in 1..Len(revisionsRun.family) :
                         revisionsRun.family[i].kind = "ok" } )

\* C28: once the task is STOPPED, a waiting Execute eventually returns,
\* whatever the relay and the collector are doing: each poll is answered and
\* ends the wait or, with the complete reply of exit code 0, leads to the wait
\* for the collector's end, which the cancelled taskCtx always lets the
\* collector give.
C28_WaitReturnsOnceStopped ==
    /\ []( pc = "waitLogsDone"
           => /\ task.status = "STOPPED"
              /\ taskCtxCancelled
              /\ (collectorPc = "done" \/ ENABLED CollectorReturn) )
    /\ ( (pc \in WaitLoopPcs /\ task.status = "STOPPED") ~> ret.returned )

C28_Witness ==
    /\ ret.returned
    /\ ret.err = NoErr
    /\ result.Finished
    /\ collectorPc = "done"
    /\ relayPc = "send"
    /\ Len(logChan) = LogChanCap

C30_FinishedOnlyOnCleanStop ==
    (ret.returned /\ ret.hasResult) =>
       /\ result.Finished =>
             /\ ret.err = NoErr
             /\ waitForCompletion
             /\ "DescribeTasks" \in calls
             /\ StoppedReply(lastReply)
             /\ lastReply.exitCode = 0
             /\ task.status = "STOPPED"
       /\ (ret.err # NoErr \/ ~waitForCompletion) => ~result.Finished
       /\ (lastReply.received /\ ~(StoppedReply(lastReply) /\ lastReply.exitCode = 0))
             => ~result.Finished

C30_Witness ==
    /\ ret.returned
    /\ ret.hasResult
    /\ result.Finished
    /\ ret.err = NoErr
    /\ ctxCancelled
    /\ StoppedReply(lastReply)
    /\ Len(result.Logs) = 1

====
